---- MODULE Spec2Model ----
(***************************************************************************)
(* RFQ lead scoring: the batch Scorer (score_new_rfq.py), the rfqs /       *)
(* rfq_lead_scores tables it reads and writes, and the reporting API       *)
(* (api/routes/rfqs.py) that reads the scores and creates leads.           *)
(*                                                                         *)
(* Text values the code inspects character by character (rfq_id, category) *)
(* are sequences of one-character strings.  Probabilities are fixed-point: *)
(* the integer p stands for the probability p / ProbScale.                 *)
(***************************************************************************)
EXTENDS Integers, Sequences, FiniteSets, TLC

\* ------------------------------------------------------------------ bounds
BigN == 102          \* rows of the large seed table (more than one batch)
MaxCreates == 2      \* create-lead requests in one behaviour
MaxRuns == 2         \* Scorer runs in one behaviour
MaxReads == 1        \* reporting requests in one behaviour
ProbScale == 1000    \* fixed-point resolution of a probability
MaxTrains == 2       \* Trainer runs in one behaviour
MaxCatLen == 6       \* characters of a category in the category-match check

\* ------------------------------------------------------- program constants
BatchLimit == 100    \* LIMIT 100 of the Scorer's candidate query
ListCap == 100       \* min(int(limit_param), 100)
ListFallback == 50   \* limit = 50 when limit_param does not parse
IdWidth == 3         \* f"RFQ{new_num:03d}"
PrefixLen == 5       \* SUBSTRING(b.primary_category, 1, 5)
HighMin == 70        \* lead_score >= 70 -> 'High'
MediumMin == 40      \* lead_score >= 40 -> 'Medium'

\* A nullable column holds Null or Some(v)
Null == <<>>

Some(v) == <<v>>

IsNull(x) == x = Null

Val(x) == x[1]

Min(a, b) == IF a < b THEN a ELSE b

\* the sequence [i \in 1..n |-> f[i]] as an explicit tuple
Tuple(f, n) == SubSeq(f, 1, n)

Reverse(s) == Tuple([i \in 1..Len(s) |-> s[Len(s) + 1 - i]], Len(s))

Take(s, n) == SubSeq(s, 1, Min(Len(s), n))

\* ------------------------------------------------------------ text values
Digits == <<"0", "1", "2", "3", "4", "5", "6", "7", "8", "9">>

IsDigit(c) == \E d \in 1..10 : Digits[d] = c

DigitVal(c) == (CHOOSE d \in 1..10 : Digits[d] = c) - 1

\* str.startswith
StartsWith(s, pre) ==
    /\ Len(s) >= Len(pre)
    /\ SubSeq(s, 1, Len(pre)) = pre

\* s LIKE pat: in the pattern "%" stands for any run of characters and "_"
\* for any one character (the values hold no escape character)
RECURSIVE Like(_, _)
Like(s, pat) ==
    IF Len(pat) = 0 THEN Len(s) = 0
    ELSE IF pat[1] = "%"
    THEN \E k \in 0..Len(s) : Like(SubSeq(s, k + 1, Len(s)), Tail(pat))
    ELSE IF pat[1] = "_"
    THEN Len(s) > 0 /\ Like(Tail(s), Tail(pat))
    ELSE Len(s) > 0 /\ s[1] = pat[1] /\ Like(Tail(s), Tail(pat))

\* decimal digits of a natural number, most significant first
RECURSIVE DecDigits(_)
DecDigits(n) ==
    IF n < 10 THEN <<Digits[n + 1]>>
    ELSE Append(DecDigits(n \div 10), Digits[(n % 10) + 1])

RECURSIVE ZeroPad(_, _)
ZeroPad(ds, width) == IF Len(ds) >= width THEN ds ELSE ZeroPad(<<"0">> \o ds, width)

\* f"{n:03d}" for n >= 0
Format03d(n) == ZeroPad(DecDigits(n), IdWidth)

RfqPrefix == <<"R", "F", "Q">>

\* f"RFQ{new_num:03d}"
FormatRfqId(n) == RfqPrefix \o Format03d(n)

\* int(text) for a text of decimal digits; anything else raises ValueError
IntParses(ds) == Len(ds) > 0 /\ \A i \in 1..Len(ds) : IsDigit(ds[i])

RECURSIVE ParseInt(_)
ParseInt(ds) ==
    IF Len(ds) = 0 THEN 0
    ELSE 10 * ParseInt(SubSeq(ds, 1, Len(ds) - 1)) + DigitVal(ds[Len(ds)])

\* -------------------------------------------------------------- categories
Steel == <<"S", "t", "e", "e", "l">>

SteelPipes == <<"S", "t", "e", "e", "l", " ", "P", "i", "p", "e", "s">>

Oil == <<"O", "i", "l">>

CrudeOil == <<"C", "r", "u", "d", "e", " ", "O", "i", "l">>

\* ------------------------------------------------------- businesses table
\* business_id -> row; immutable for the Scorer and the API.  Business 4 has
\* no rank (brank IS NULL).
Businesses ==
    [b \in 1..4 |->
        CASE b = 1 -> [primary_category |-> Steel, brank |-> Some(1)]
          [] b = 2 -> [primary_category |-> Oil, brank |-> Some(3)]
          [] b = 3 -> [primary_category |-> SteelPipes, brank |-> Some(5)]
          [] b = 4 -> [primary_category |-> Steel, brank |-> Null]]

\* r JOIN businesses b ON r.buyer_business_id = b.business_id keeps the row
HasBuyer(r) == ~IsNull(r.buyer_business_id) /\ Val(r.buyer_business_id) \in DOMAIN Businesses

Buyer(r) == Businesses[Val(r.buyer_business_id)]

\* ------------------------------------------------------------- rfqs table
\* The table is a sequence of rows kept in created_at order (oldest first).
Lead(id, cat, bmin, bmax, buyer, st, at) ==
    [rfq_id |-> id, category |-> cat, budget_min |-> bmin, budget_max |-> bmax,
     buyer_business_id |-> buyer, status |-> st, created_at |-> at]

SeedEmpty == <<>>

SeedSmall ==
    << Lead(FormatRfqId(44), Steel, Some(1000), Some(5000), Some(1), "closed", 1),
       Lead(FormatRfqId(45), Steel, Some(1000), Some(5000), Some(1), "published", 2),
       Lead(FormatRfqId(46), SteelPipes, Null, Null, Some(2), "draft", 3),
       Lead(FormatRfqId(47), CrudeOil, Some(1000), Null, Some(3), "published", 4) >>

\* a published lead whose buyer has no rank, next to an ordinary one
SeedNoRank ==
    << Lead(FormatRfqId(1), Steel, Some(1000), Some(5000), Some(4), "published", 1),
       Lead(FormatRfqId(2), Steel, Some(1000), Some(5000), Some(1), "published", 2) >>

SeedWide == << Lead(FormatRfqId(999), Steel, Null, Null, Some(1), "closed", 1) >>

SeedLegacy ==
    << Lead(<<"r", "f", "q", "_", "7">>, Steel, Some(1000), Some(5000), Some(1), "published", 1) >>

\* BigN leads RFQ001.., all published but one, more than one Scorer batch
SeedBig ==
    [i \in 1..BigN |->
        Lead(FormatRfqId(i),
             IF i % 2 = 0 THEN Steel ELSE CrudeOil,
             IF i % 3 = 0 THEN Null ELSE Some(1000),
             IF i % 4 = 0 THEN Null ELSE Some(5000),
             Some((i % 3) + 1),
             IF i = 7 THEN "closed" ELSE "published",
             i)]

Seeds == {SeedEmpty, SeedSmall, SeedNoRank, SeedWide, SeedLegacy, SeedBig}

\* --------------------------------------------------------- model artifact
FeatureNames == <<"buyer_brank", "category_match", "budget_specified">>

\* The fitted classifier is a black box; two families stand for it.  "graded"
\* depends on every feature and spans the whole range: exactly 0 for
\* (5, 0.2, 0) and exactly 1 for (1, 1.0, 1).  "constant" answers p / ProbScale
\* for every row.
Graded == [kind |-> "graded", p |-> 0]

\* a classifier fitted without the column category_match
Ranked == [kind |-> "ranked", p |-> 0]

Constant(p) == [kind |-> "constant", p |-> p]

Classifiers == {Graded}

ConstantClassifiers == {Constant(p) : p \in 0..ProbScale}

\* model.predict_proba(X)[:, 1] for one row: a probability in 0..ProbScale.
\* category_match is in tenths (10, 6, 2).
PredictProba(model, x) ==
    CASE model.kind = "graded" ->
            (((5 - x.buyer_brank) * 152 + (x.category_match - 2) * 24
              + x.budget_specified * 200) * ProbScale) \div 1000
      [] model.kind = "ranked" ->
            (((5 - x.buyer_brank) * 200 + x.budget_specified * 200) * ProbScale) \div 1000
      [] model.kind = "constant" -> model.p

\* ------------------------------------------------------------------ Scorer
\* the rfq_ids that have a row in rfq_lead_scores
ScoredIds(scoreTable) == {scoreTable[i].rfq_id : i \in 1..Len(scoreTable)}

\* CASE WHEN r.category = b.primary_category THEN 1.0
\*      WHEN r.category LIKE CONCAT('%', SUBSTRING(b.primary_category, 1, 5), '%') THEN 0.6
\*      ELSE 0.2 END, in tenths
CategoryMatch(category, primary_category) ==
    IF category = primary_category THEN 10
    ELSE IF Like(category, <<"%">> \o Take(primary_category, PrefixLen) \o <<"%">>) THEN 6
    ELSE 2

\* (r.budget_min IS NOT NULL AND r.budget_max IS NOT NULL)
BudgetSpecified(r) == ~IsNull(r.budget_min) /\ ~IsNull(r.budget_max)

\* one row of the candidate query's result
CandidateRow(r) ==
    [rfq_id |-> r.rfq_id,
     buyer_brank |-> Buyer(r).brank,
     category_match |-> CategoryMatch(r.category, Buyer(r).primary_category),
     budget_specified |-> BudgetSpecified(r)]

\* the WHERE clause without "AND s.rfq_id IS NULL"
IsCandidateAnyScore(r, scoredIds) ==
    /\ HasBuyer(r)
    /\ r.status = "published"

\* WHERE r.status = 'published' AND s.rfq_id IS NULL, of the joined rows
IsCandidate(r, scoredIds) ==
    /\ HasBuyer(r)
    /\ r.status = "published"
    /\ r.rfq_id \notin scoredIds

\* the candidate query without its LIMIT clause
CandidatesUnbounded(rfqTable, scoreTable) ==
    LET scoredIds == ScoredIds(scoreTable)
        sel == SelectSeq(rfqTable, LAMBDA r : IsCandidate(r, scoredIds))
        top == Reverse(sel)
    IN  Tuple([i \in 1..Len(top) |-> CandidateRow(top[i])], Len(top))

\* the candidate query: ... ORDER BY r.created_at DESC LIMIT 100
Candidates(rfqTable, scoreTable) ==
    LET scoredIds == ScoredIds(scoreTable)
        sel == SelectSeq(rfqTable, LAMBDA r : IsCandidate(r, scoredIds))
        top == Take(Reverse(sel), BatchLimit)
    IN  Tuple([i \in 1..Len(top) |-> CandidateRow(top[i])], Len(top))

\* predict_proba rejects a row that holds NaN (a NULL buyer_brank)
Predictable(df) == \A i \in 1..Len(df) : ~IsNull(df[i].buyer_brank)

\* astype(int): truncation toward zero of num / den
TruncToInt(num, den) == IF num >= 0 THEN num \div den ELSE -((-num) \div den)

\* round(probabilities * 100) in place of the truncation
LeadScoreRounded(p) == (p * 100 + (ProbScale \div 2)) \div ProbScale

\* (probabilities * 100).astype(int)
LeadScore(p) == TruncToInt(p * 100, ProbScale)

\* X = df[feature_names]; X['budget_specified'].astype(int)
FeatureRow(row) ==
    [buyer_brank |-> Val(row.buyer_brank),
     category_match |-> row.category_match,
     budget_specified |-> IF row.budget_specified THEN 1 ELSE 0]

\* the columns of the candidate query's result
DfColumns == {"rfq_id", "buyer_brank", "category_match", "budget_specified"}

\* df[feature_names] and X['budget_specified'] raise no KeyError
FeaturesSelectable(features) ==
    /\ \A i \in 1..Len(features) : features[i] \in DfColumns
    /\ \E i \in 1..Len(features) : features[i] = "budget_specified"

\* one row of X = df[feature_names]: the columns the artifact names
FeatureFrame(row, features) ==
    [n \in {features[i] : i \in 1..Len(features)} |-> FeatureRow(row)[n]]

\* the values of one INSERT INTO rfq_lead_scores
ScoreRecord(row, package) ==
    LET p == PredictProba(package.model, FeatureFrame(row, package.features))
    IN  [rfq_id |-> row.rfq_id,
         lead_score |-> LeadScore(p),
         conversion_probability |-> p,
         model_version |-> package.version]

\* the rows the insert loop writes, in the order of df.iterrows()
ScoreRecords(df, package) ==
    Tuple([i \in 1..Len(df) |-> ScoreRecord(df[i], package)], Len(df))

\* rfq_lead_scores.rfq_id is unique: an INSERT of a present rfq_id fails
ScoreInsertAllowed(presentIds, rec) == rec.rfq_id \notin presentIds

\* an insert loop that swallows the exception of a failing execute and goes
\* on with the next row: the rows that did not fail are handed to the commit
InsertLoopSkipFailed(txn, recs, failAt) ==
    LET present == ScoredIds(txn)
        good == SelectSeq(Tuple([i \in 1..Len(recs) |-> [at |-> i, rec |-> recs[i]]], Len(recs)),
                          LAMBDA e : e.at # failAt /\ ScoreInsertAllowed(present, e.rec))
    IN  [ok |-> TRUE, table |-> txn \o Tuple([i \in 1..Len(good) |-> good[i].rec], Len(good)),
         failed_at |-> 0]

\* the insert loop inside the open transaction: the rows are inserted in
\* order up to the first execute that raises.  failAt = k > 0 makes the k-th
\* execute raise (storage error), failAt = 0 none; a row whose rfq_id is
\* present, or was inserted earlier in the loop, raises as well
InsertLoop(txn, recs, failAt) ==
    LET present == ScoredIds(txn)
        distinct == Cardinality(ScoredIds(recs)) = Len(recs)
        Raises(i) ==
            \/ i = failAt
            \/ ~ScoreInsertAllowed(present, recs[i])
            \/ ~distinct /\ \E j \in 1..(i - 1) : recs[j].rfq_id = recs[i].rfq_id
        bad == {i \in 1..Len(recs) : Raises(i)}
        stop == IF bad = {} THEN Len(recs) + 1
                ELSE CHOOSE i \in bad : \A j \in bad : i <= j
    IN  [ok |-> bad = {}, table |-> txn \o SubSeq(recs, 1, stop - 1),
         failed_at |-> IF bad = {} THEN 0 ELSE stop]

\* the insert loop with conn.commit() left out: nothing is ever stored
PersistNoCommit(scoreTable, recs, failAt) ==
    LET r == InsertLoop(scoreTable, recs, failAt)
    IN  [ok |-> r.ok, table |-> scoreTable, failed_at |-> r.failed_at]

\* conn.commit() inside the loop: the rows before the failing one are stored
PersistCommitEach(scoreTable, recs, failAt) ==
    LET r == InsertLoop(scoreTable, recs, failAt)
    IN  [ok |-> r.ok, table |-> r.table, failed_at |-> r.failed_at]

\* for ... cursor.execute(insert_query, ...); conn.commit(): one transaction,
\* committed after the loop; an exception ends the script without a commit
Persist(scoreTable, recs, failAt) ==
    LET r == InsertLoop(scoreTable, recs, failAt)
    IN  IF r.ok THEN [ok |-> TRUE, table |-> r.table, failed_at |-> 0]
        ELSE [ok |-> FALSE, table |-> scoreTable, failed_at |-> r.failed_at]

\* --------------------------------------------------------------- the state
VARIABLES
    rfqs,            \* table rfqs, in created_at order
    scores,          \* table rfq_lead_scores, in insertion order
    model_package,   \* the unpickled lead_scoring_model.pkl
    now,             \* the database clock, NOW()
    pending,         \* create_rfq requests between their SELECT and INSERT
    run,             \* what the last Scorer run selected and did
    response,        \* the last HTTP response of the API
    last_op,         \* the operation that acted last
    creates, runs, reads,  \* requests and runs so far
    files,           \* the files present in the working directory
    produced_by,     \* history: the artifact that computed scores[i]
    trains           \* Trainer runs so far

vars == <<rfqs, scores, model_package, now, pending, run, response, last_op,
          creates, runs, reads, files, produced_by, trains>>

\* open('lead_scoring_model.pkl', ...) and Path('training_data.csv')
ArtifactFile == "lead_scoring_model.pkl"

DataFile == "training_data.csv"

AllFiles == {ArtifactFile, DataFile}

\* status: what the run ended with; batch: the rfq_ids of its candidate set,
\* in order; failed_at: the insert that raised, 0 if none did
NoRun == [status |-> "none", batch |-> <<>>, failed_at |-> 0]

NoResponse == [kind |-> "none"]

InitFrom(seeds, classifiers) ==
    /\ rfqs \in seeds
    /\ scores = <<>>
    /\ model_package \in
         {[model |-> m, features |-> FeatureNames, version |-> "v1.0"] : m \in classifiers}
    /\ now = Len(rfqs) + 1
    /\ pending = {}
    /\ run = NoRun
    /\ response = NoResponse
    /\ last_op = "init"
    /\ creates = 0
    /\ runs = 0
    /\ reads = 0
    /\ files = AllFiles
    /\ produced_by = <<>>
    /\ trains = 0

Init == InitFrom(Seeds, Classifiers)

\* ------------------------------------------------------ Scorer: one run
MaxFailAt == 3       \* storage failures are injected at inserts 1..MaxFailAt

RunIds(df) == Tuple([i \in 1..Len(df) |-> df[i].rfq_id], Len(df))

\* score_new_rfq.py from the candidate query to the commit
ScorerScript(df, failAt) ==
    /\ last_op' = "score"
    /\ IF ArtifactFile \notin files
       THEN /\ failAt = 0
            /\ run' = [status |-> "config_error", batch |-> <<>>, failed_at |-> 0]
            /\ UNCHANGED <<scores, produced_by>>
       ELSE IF Len(df) = 0
       THEN /\ failAt = 0
            /\ run' = [status |-> "empty", batch |-> <<>>, failed_at |-> 0]
            /\ UNCHANGED <<scores, produced_by>>
       ELSE IF ~FeaturesSelectable(model_package.features)
       THEN /\ failAt = 0
            /\ run' = [status |-> "feature_error", batch |-> RunIds(df), failed_at |-> 0]
            /\ UNCHANGED <<scores, produced_by>>
       ELSE IF ~Predictable(df)
       THEN /\ failAt = 0
            /\ run' = [status |-> "predict_error", batch |-> RunIds(df), failed_at |-> 0]
            /\ UNCHANGED <<scores, produced_by>>
       ELSE \E res \in {Persist(scores, ScoreRecords(df, model_package), failAt)} :
                /\ run' = [status |-> IF res.ok THEN "ok" ELSE "storage_error",
                           batch |-> RunIds(df), failed_at |-> res.failed_at]
                /\ scores' = res.table
                /\ produced_by' = produced_by \o
                       [i \in 1..(Len(res.table) - Len(scores)) |-> model_package]
    /\ UNCHANGED <<rfqs, model_package, now, pending, response, creates, reads,
                   files, trains>>

\* one invocation of the script; the failing insert, if any, is the
\* environment's choice
ScorerRun ==
    \E df \in {Candidates(rfqs, scores)} :
    \E failAt \in 0..Min(Len(df), MaxFailAt) :
        /\ runs < MaxRuns
        /\ runs' = runs + 1
        /\ ScorerScript(df, failAt)

\* the scheduler re-invoking the script without end, over a store whose
\* inserts do not fail
ScorerRerun ==
    \E df \in {Candidates(rfqs, scores)} :
        /\ UNCHANGED runs
        /\ ScorerScript(df, 0)

\* ------------------------------------------------- Trainer: train_model.py
\* model_package['version'] as the Trainer writes it
ArtifactVersion == "v1.0"

\* the classifiers model.fit can return, one per content of training_data.csv
TrainedClassifiers == {Graded, Constant(ProbScale \div 2)}

\* the existence test that always passes
DataFileExistsAlways(fileSet) == TRUE

\* DATA_FILE.exists()
DataFileExists(fileSet) == DataFile \in fileSet

\* train_model.py: the existence test, the fit and the pickle.dump
Train ==
    \E m \in TrainedClassifiers :
        /\ trains < MaxTrains
        /\ trains' = trains + 1
        /\ last_op' = "train"
        /\ IF ~DataFileExists(files)
           THEN UNCHANGED <<model_package, files>>
           ELSE /\ model_package' =
                     [model |-> m, features |-> FeatureNames, version |-> ArtifactVersion]
                /\ files' = files \cup {ArtifactFile}
        /\ UNCHANGED <<rfqs, scores, now, pending, run, response, creates, runs, reads,
                       produced_by>>

\* --------------------------------------------------- POST /rfqs: create_rfq
CreateBodies ==
    { [category |-> Steel, budget_min |-> Some(1000), budget_max |-> Some(5000),
       buyer_business_id |-> Some(1), status |-> "published"],
      [category |-> CrudeOil, budget_min |-> Some(1000), budget_max |-> Some(5000),
       buyer_business_id |-> Some(2), status |-> "draft"],
      [category |-> Steel, budget_min |-> Null, budget_max |-> Some(5000),
       buyer_business_id |-> Some(1), status |-> "published"] }

\* missing_fields is empty: no required field is absent or null
BodyValid(data) ==
    /\ ~IsNull(data.budget_min)
    /\ ~IsNull(data.budget_max)
    /\ ~IsNull(data.buyer_business_id)

\* SELECT rfq_id FROM rfqs ORDER BY created_at DESC LIMIT 1; fetchone()
LastRfq(rfqTable) ==
    IF Len(rfqTable) = 0 THEN Null ELSE Some(rfqTable[Len(rfqTable)].rfq_id)

\* int(last_rfq[0][3:]) raises ValueError
IdParseFails(last_rfq) ==
    /\ ~IsNull(last_rfq)
    /\ StartsWith(Val(last_rfq), RfqPrefix)
    /\ ~IntParses(SubSeq(Val(last_rfq), 4, Len(Val(last_rfq))))

\* f"RFQ{new_num}" in place of f"RFQ{new_num:03d}"
NewRfqIdUnpadded(last_rfq) ==
    IF ~IsNull(last_rfq) /\ StartsWith(Val(last_rfq), RfqPrefix)
    THEN RfqPrefix \o DecDigits(ParseInt(SubSeq(Val(last_rfq), 4, Len(Val(last_rfq)))) + 1)
    ELSE RfqPrefix \o DecDigits(1)

\* the rfq_id generation of create_rfq
NewRfqId(last_rfq) ==
    IF ~IsNull(last_rfq) /\ StartsWith(Val(last_rfq), RfqPrefix)
    THEN FormatRfqId(ParseInt(SubSeq(Val(last_rfq), 4, Len(Val(last_rfq)))) + 1)
    ELSE FormatRfqId(1)

\* the request up to the SELECT of the last rfq_id; the transaction, and
\* with it NOW(), starts at this SELECT
CreateBegin(data) ==
    /\ creates < MaxCreates
    /\ creates' = creates + 1
    /\ last_op' = "create_begin"
    /\ IF ~BodyValid(data)
       THEN /\ response' = [kind |-> "create", code |-> 400]
            /\ UNCHANGED <<pending, now>>
       ELSE IF IdParseFails(LastRfq(rfqs))
       THEN /\ response' = [kind |-> "create", code |-> 500]
            /\ UNCHANGED <<pending, now>>
       ELSE /\ pending' = pending \cup
                 {[data |-> data, last_rfq |-> LastRfq(rfqs),
                   new_rfq_id |-> NewRfqId(LastRfq(rfqs)), started |-> now]}
            /\ now' = now + 1
            /\ UNCHANGED response
    /\ UNCHANGED <<rfqs, scores, model_package, run, runs, reads,
                   files, produced_by, trains>>

\* rfqs.rfq_id is unique: an INSERT of a present rfq_id fails
RfqInsertAllowed(rfqTable, id) == \A i \in 1..Len(rfqTable) : rfqTable[i].rfq_id # id

\* the position of a new row in created_at order
InsertByCreatedAt(rfqTable, row) ==
    LET before == SelectSeq(rfqTable, LAMBDA r : r.created_at <= row.created_at)
        after == SelectSeq(rfqTable, LAMBDA r : r.created_at > row.created_at)
    IN  before \o <<row>> \o after

\* the INSERT and the commit over a table that accepts a present rfq_id
CreateFinishNoConstraint(req) ==
    /\ req \in pending
    /\ pending' = pending \ {req}
    /\ last_op' = "create_finish"
    /\ rfqs' = InsertByCreatedAt(rfqs,
                 Lead(req.new_rfq_id, req.data.category, req.data.budget_min,
                      req.data.budget_max, req.data.buyer_business_id,
                      req.data.status, req.started))
    /\ response' = [kind |-> "create", code |-> 201, rfq_id |-> req.new_rfq_id]
    /\ UNCHANGED <<scores, model_package, now, run, creates, runs, reads,
                   files, produced_by, trains>>

\* the INSERT INTO rfqs ... NOW() and the commit
CreateFinish(req) ==
    /\ req \in pending
    /\ pending' = pending \ {req}
    /\ last_op' = "create_finish"
    /\ IF RfqInsertAllowed(rfqs, req.new_rfq_id)
       THEN /\ rfqs' = InsertByCreatedAt(rfqs,
                 Lead(req.new_rfq_id, req.data.category, req.data.budget_min,
                      req.data.budget_max, req.data.buyer_business_id,
                      req.data.status, req.started))
            /\ response' = [kind |-> "create", code |-> 201, rfq_id |-> req.new_rfq_id]
       ELSE /\ rfqs' = rfqs
            /\ response' = [kind |-> "create", code |-> 500]
    /\ UNCHANGED <<scores, model_package, now, run, creates, runs, reads,
                   files, produced_by, trains>>

\* ------------------------------------------- GET /rfqs/<rfq_id>/score
\* Python truth of an optional integer: None and 0 are falsy
Truthy(x) == ~IsNull(x) /\ Val(x) # 0

\* CASE WHEN s.lead_score >= 70 THEN 'High' WHEN s.lead_score >= 40 THEN
\* 'Medium' ELSE 'Low' END
Priority(lead_score) ==
    IF lead_score >= HighMin THEN "High"
    ELSE IF lead_score >= MediumMin THEN "Medium"
    ELSE "Low"

\* rfqs r JOIN businesses b LEFT JOIN rfq_lead_scores s WHERE r.rfq_id = %s:
\* the joined rows, the score columns Null where no score row matches
ScoreQueryRows(rfqTable, scoreTable, rfq_id) ==
    LET leads == SelectSeq(rfqTable, LAMBDA r : r.rfq_id = rfq_id /\ HasBuyer(r))
        found == SelectSeq(scoreTable, LAMBDA sc : sc.rfq_id = rfq_id)
    IN  IF Len(leads) = 0 THEN <<>>
        ELSE IF Len(found) = 0
        THEN << [rfq_id |-> rfq_id, lead_score |-> Null,
                 conversion_probability |-> Null, priority |-> "Low"] >>
        ELSE << [rfq_id |-> rfq_id, lead_score |-> Some(found[1].lead_score),
                 conversion_probability |-> Some(found[1].conversion_probability),
                 priority |-> Priority(found[1].lead_score)] >>

\* get_rfq_score: fetchone() and the two 404 tests
GetRfqScoreResponse(rfqTable, scoreTable, rfq_id) ==
    LET rows == ScoreQueryRows(rfqTable, scoreTable, rfq_id)
    IN  IF Len(rows) = 0
        THEN [kind |-> "score", rfq_id |-> rfq_id, code |-> 404, error |-> "RFQ not found"]
        ELSE IF ~Truthy(rows[1].lead_score)
        THEN [kind |-> "score", rfq_id |-> rfq_id, code |-> 404,
              error |-> "RFQ not yet scored"]
        ELSE [kind |-> "score", rfq_id |-> rfq_id, code |-> 200, rfq |-> rows[1]]

\* the rfq_ids requested: the oldest and the newest rows and an absent id
LookupIds(rfqTable) ==
    {rfqTable[i].rfq_id : i \in {j \in 1..Len(rfqTable) : j <= 1 \/ j > Len(rfqTable) - 2}}
        \cup {FormatRfqId(500)}

GetRfqScore(rfq_id) ==
    /\ reads < MaxReads
    /\ reads' = reads + 1
    /\ last_op' = "get_score"
    /\ response' = GetRfqScoreResponse(rfqs, scores, rfq_id)
    /\ UNCHANGED <<rfqs, scores, model_package, now, pending, run, creates, runs,
                   files, produced_by, trains>>

\* ---------------------------------------------------- GET /rfqs/scored
LimitNone == [kind |-> "none", n |-> 0]

LimitAll == [kind |-> "all", n |-> 0]

LimitInt(n) == [kind |-> "int", n |-> n]

LimitJunk == [kind |-> "junk", n |-> 0]

ListRequest(lim, ms, rs, st) ==
    [limit_param |-> lim, min_score |-> ms, rfqscore |-> rs, status |-> st]

\* status defaults to 'published'
ListRequests ==
    { ListRequest(LimitNone, Null, Null, "published"),
      ListRequest(LimitAll, Null, Null, "published"),
      ListRequest(LimitInt(2), Null, Null, "published"),
      ListRequest(LimitInt(500), Null, Null, "published"),
      ListRequest(LimitInt(-1), Null, Null, "published"),
      ListRequest(LimitJunk, Null, Null, "published"),
      ListRequest(LimitAll, Some(50), Null, "published"),
      ListRequest(LimitInt(500), Null, Some(1), "published"),
      ListRequest(LimitAll, Null, Null, "draft") }

\* limit is None for no parameter and for 'all', min(int(limit_param), 100)
\* for a number, 50 when int() raises
DetermineLimit(limit_param) ==
    CASE limit_param.kind \in {"none", "all"} -> Null
      [] limit_param.kind = "int" -> Some(Min(limit_param.n, ListCap))
      [] limit_param.kind = "junk" -> Some(ListFallback)

\* one row of rfqs r LEFT JOIN businesses b JOIN rfq_lead_scores s
ListRow(r, sc) ==
    [rfq_id |-> r.rfq_id, created_at |-> r.created_at, status |-> r.status,
     buyer_brank |-> IF HasBuyer(r) THEN Buyer(r).brank ELSE Null,
     lead_score |-> sc.lead_score,
     conversion_probability |-> sc.conversion_probability,
     priority |-> Priority(sc.lead_score)]

\* WHERE r.status = %s [AND b.brank = %s]; min_score is read from the
\* request and appears in no clause of the query
ListWhere(row, req) ==
    /\ row.status = req.status
    /\ Truthy(req.rfqscore) =>
         (~IsNull(row.buyer_brank) /\ Val(row.buyer_brank) = Val(req.rfqscore))

\* the score row of each scored rfq_id (rfq_lead_scores.rfq_id is unique, so
\* a lead joins at most one score row), built by halving the table
RECURSIVE ScoreIndex(_, _, _)
ScoreIndex(scoreTable, lo, hi) ==
    IF lo > hi THEN <<>>
    ELSE IF lo = hi THEN (scoreTable[lo].rfq_id :> scoreTable[lo])
    ELSE ScoreIndex(scoreTable, lo, (lo + hi) \div 2)
             @@ ScoreIndex(scoreTable, ((lo + hi) \div 2) + 1, hi)

\* the joined and filtered rows, newest lead first
JoinScores(rfqTable, index, req) ==
    LET sel == SelectSeq(Reverse(rfqTable), LAMBDA r : r.rfq_id \in DOMAIN index)
        rows == Tuple([i \in 1..Len(sel) |-> ListRow(sel[i], index[sel[i].rfq_id])],
                      Len(sel))
    IN  SelectSeq(rows, LAMBDA row : ListWhere(row, req))

\* ORDER BY s.lead_score DESC, r.created_at DESC: row a sorts before row b
OrderedBefore(a, b) ==
    \/ a.lead_score > b.lead_score
    \/ a.lead_score = b.lead_score /\ a.created_at > b.created_at

\* the query of get_scored_rfqs: ORDER BY s.lead_score DESC, r.created_at DESC
\* and LIMIT %s when limit is not None
ScoredQuery(rfqTable, scoreTable, req, limit) ==
    LET joined == JoinScores(rfqTable, ScoreIndex(scoreTable, 1, Len(scoreTable)), req)
        sorted == SortSeq(joined, OrderedBefore)
    IN  IF IsNull(limit) THEN sorted ELSE Take(sorted, Val(limit))

\* get_scored_rfqs; a negative LIMIT is a database error
GetScoredRfqsResponse(rfqTable, scoreTable, req) ==
    LET limit == DetermineLimit(req.limit_param)
    IN  IF ~IsNull(limit) /\ Val(limit) < 0
        THEN [kind |-> "list", request |-> req, code |-> 500, rfqs |-> <<>>]
        ELSE [kind |-> "list", request |-> req, code |-> 200,
              rfqs |-> ScoredQuery(rfqTable, scoreTable, req, limit)]

GetScoredRfqs(req) ==
    /\ reads < MaxReads
    /\ reads' = reads + 1
    /\ last_op' = "get_scored"
    /\ response' = GetScoredRfqsResponse(rfqs, scores, req)
    /\ UNCHANGED <<rfqs, scores, model_package, now, pending, run, creates, runs,
                   files, produced_by, trains>>

\* ------------------------------------------------------ GET /rfqs/stats
\* rfqs r JOIN businesses b JOIN rfq_lead_scores s WHERE r.status =
\* 'published': the lead_score of each joined row
StatsRows(rfqTable, scoreTable) ==
    LET index == ScoreIndex(scoreTable, 1, Len(scoreTable))
        sel == SelectSeq(rfqTable, LAMBDA r : /\ HasBuyer(r)
                                              /\ r.status = "published"
                                              /\ r.rfq_id \in DOMAIN index)
    IN  Tuple([i \in 1..Len(sel) |-> index[sel[i].rfq_id].lead_score], Len(sel))

\* SUM(<case>) over the rows' CASE ... THEN 1 ELSE 0 END values: NULL over no rows
SumCase(cases) ==
    IF Len(cases) = 0 THEN Null
    ELSE Some(Cardinality({i \in 1..Len(cases) : cases[i] = 1}))

\* get_rfq_stats: the aggregate row and the count of all leads
GetRfqStatsResponse(rfqTable, scoreTable) ==
    LET rows == StatsRows(rfqTable, scoreTable)
        n == Len(rows)
        high == Tuple([i \in 1..n |-> IF rows[i] >= HighMin THEN 1 ELSE 0], n)
        medium == Tuple([i \in 1..n |->
                           IF rows[i] >= MediumMin /\ rows[i] < HighMin THEN 1 ELSE 0], n)
        low == Tuple([i \in 1..n |-> IF rows[i] < MediumMin THEN 1 ELSE 0], n)
    IN  [kind |-> "stats", code |-> 200,
         stats |-> [total_scored |-> n,
                    high_priority |-> SumCase(high),
                    medium_priority |-> SumCase(medium),
                    low_priority |-> SumCase(low),
                    total_rfqs |-> Len(rfqTable)]]

GetRfqStats ==
    /\ reads < MaxReads
    /\ reads' = reads + 1
    /\ last_op' = "get_stats"
    /\ response' = GetRfqStatsResponse(rfqs, scores)
    /\ UNCHANGED <<rfqs, scores, model_package, now, pending, run, creates, runs,
                   files, produced_by, trains>>

Next ==
    \/ GetRfqStats
    \/ ScorerRun
    \/ \E data \in CreateBodies : CreateBegin(data)
    \/ \E req \in pending : CreateFinish(req)
    \/ \E rfq_id \in LookupIds(rfqs) : GetRfqScore(rfq_id)
    \/ \E req \in ListRequests : GetScoredRfqs(req)

Spec == Init /\ [][Next]_vars

\* The writers alone: the Scorer and create_rfq, no reporting request
NextWrite ==
    \/ ScorerRun
    \/ \E data \in CreateBodies : CreateBegin(data)
    \/ \E req \in pending : CreateFinish(req)

SpecWrite == Init /\ [][NextWrite]_vars

\* The Scorer under a scheduler that keeps re-invoking it, with leads being
\* created in between
InitLive ==
    /\ rfqs \in {SeedEmpty, SeedSmall, SeedNoRank}
    /\ scores = <<>>
    /\ model_package = [model |-> Graded, features |-> FeatureNames,
                        version |-> ArtifactVersion]
    /\ now = Len(rfqs) + 1
    /\ pending = {}
    /\ run = NoRun
    /\ response = NoResponse
    /\ last_op = "init"
    /\ creates = 0
    /\ runs = 0
    /\ reads = 0
    /\ files = AllFiles
    /\ produced_by = <<>>
    /\ trains = 0

NextLive ==
    \/ ScorerRerun
    \/ \E data \in CreateBodies : CreateBegin(data)
    \/ \E req \in pending : CreateFinish(req)

\* the scheduler is fair to the Scorer and a request that has begun runs to
\* its end; requests come or do not
SpecLive ==
    /\ InitLive
    /\ [][NextLive]_vars
    /\ WF_vars(ScorerRerun)
    /\ WF_vars(\E req \in pending : CreateFinish(req))

\* The Trainer next to the Scorer, from every set of files present
InitTrain ==
    /\ rfqs \in {SeedSmall, SeedBig}
    /\ scores = <<>>
    /\ model_package \in
         {[model |-> m, features |-> FeatureNames, version |-> ArtifactVersion] :
             m \in TrainedClassifiers}
    /\ now = Len(rfqs) + 1
    /\ pending = {}
    /\ run = NoRun
    /\ response = NoResponse
    /\ last_op = "init"
    /\ creates = 0
    /\ runs = 0
    /\ reads = 0
    /\ files \in SUBSET AllFiles
    /\ produced_by = <<>>
    /\ trains = 0

NextTrain ==
    \/ Train
    \/ ScorerRun

SpecTrain == InitTrain /\ [][NextTrain]_vars

\* artifacts whose declared feature list is not the Scorer's: reordered,
\* without category_match, without budget_specified, with a name that is no
\* column of the candidate query.  The classifier of an artifact is fitted on
\* the columns the artifact declares, in that order.
OtherArtifacts ==
    { [model |-> Graded, version |-> ArtifactVersion,
       features |-> <<"category_match", "buyer_brank", "budget_specified">>],
      [model |-> Ranked, version |-> ArtifactVersion,
       features |-> <<"buyer_brank", "budget_specified">>],
      [model |-> Constant(ProbScale \div 2), version |-> ArtifactVersion,
       features |-> <<"buyer_brank", "category_match">>],
      [model |-> Constant(ProbScale \div 2), version |-> ArtifactVersion,
       features |-> <<"buyer_brank", "category_match", "budget_specified", "seller_rank">>] }

\* The Scorer and the Trainer, starting from any artifact
InitSchema ==
    /\ rfqs \in {SeedSmall, SeedNoRank, SeedBig}
    /\ scores = <<>>
    /\ model_package \in OtherArtifacts \cup
         {[model |-> Graded, features |-> FeatureNames, version |-> ArtifactVersion]}
    /\ now = Len(rfqs) + 1
    /\ pending = {}
    /\ run = NoRun
    /\ response = NoResponse
    /\ last_op = "init"
    /\ creates = 0
    /\ runs = 0
    /\ reads = 0
    /\ files = AllFiles
    /\ produced_by = <<>>
    /\ trains = 0

SpecSchema == InitSchema /\ [][NextTrain]_vars

\* category_match alone, over every pair of bounded categories
LeadAlphabet == {"a", "b"}

BuyerAlphabet == {"a", "_"}

Strings(alphabet, n) == UNION {[1..k -> alphabet] : k \in 0..n}

InitCategory ==
    /\ rfqs = SeedEmpty
    /\ scores = <<>>
    /\ model_package = [model |-> Graded, features |-> FeatureNames,
                        version |-> ArtifactVersion]
    /\ now = 1
    /\ pending = {}
    /\ run = NoRun
    /\ response \in {[kind |-> "pair", category |-> c, primary_category |-> b] :
                        c \in Strings(LeadAlphabet, MaxCatLen),
                        b \in Strings(BuyerAlphabet, MaxCatLen)}
    /\ last_op = "init"
    /\ creates = 0
    /\ runs = 0
    /\ reads = 0
    /\ files = AllFiles
    /\ produced_by = <<>>
    /\ trains = 0

\* the CASE of the candidate query for one joined row
ComputeCategoryMatch ==
    /\ response.kind = "pair"
    /\ response' = [kind |-> "category_match",
                    category |-> response.category,
                    primary_category |-> response.primary_category,
                    value |-> CategoryMatch(response.category, response.primary_category)]
    /\ last_op' = "category_match"
    /\ UNCHANGED <<rfqs, scores, model_package, now, pending, run, creates, runs, reads,
                   files, produced_by, trains>>

SpecCategory == InitCategory /\ [][ComputeCategoryMatch]_vars

\* The Scorer alone, over every probability a classifier can answer
InitScore == InitFrom({SeedSmall}, ConstantClassifiers)

NextScore == ScorerRun

SpecScore == InitScore /\ [][NextScore]_vars

\* ================================================================ properties

\* C1 (as stated): when the Scorer runs twice in immediate succession and both
\* runs succeed, the second run's candidate set is empty and it writes no
\* Score Record.
C1_SecondRunEmpty_Original ==
    [][ ( /\ last_op = "score"
          /\ run.status \in {"ok", "empty"}
          /\ runs' = runs + 1
          /\ run'.status \in {"ok", "empty"} )
        => ( run'.batch = <<>> /\ scores' = scores ) ]_vars

\* C1 (amended): when the Scorer runs twice in immediate succession and the
\* first run succeeds, every lead of the first batch has exactly one Score
\* Record after the second run and is not selected by it; and when the first
\* candidate set was shorter than the batch limit of 100, the second run's
\* candidate set is empty and it writes no Score Record.
C1_SecondRunEmpty ==
    [][ ( /\ last_op = "score"
          /\ run.status \in {"ok", "empty"}
          /\ runs' = runs + 1 )
        => ( /\ \A i \in 1..Len(run.batch) :
                  /\ \A j \in 1..Len(run'.batch) : run'.batch[j] # run.batch[i]
                  /\ Cardinality({k \in 1..Len(scores') :
                                     scores'[k].rfq_id = run.batch[i]}) = 1
             /\ Len(run.batch) < 100 =>
                  ( run'.status = "empty" /\ run'.batch = <<>> /\ scores' = scores ) ) ]_vars

\* two runs in immediate succession, the first wrote records, the second found
\* no candidate
C1_Witness ==
    /\ last_op = "score"
    /\ runs = 2
    /\ creates = 0
    /\ reads = 0
    /\ run.status = "empty"
    /\ Len(scores) > 0

\* C2: the Score Store holds at most one Score Record per lead; a run never
\* selects a lead that already has a Score Record, and the records already
\* stored are never changed or removed.
C2_AtMostOnce ==
    [][ /\ Cardinality(ScoredIds(scores')) = Len(scores')
        /\ Len(scores') >= Len(scores)
        /\ SubSeq(scores', 1, Len(scores)) = scores
        /\ runs' = runs + 1 =>
             \A i \in 1..Len(run'.batch) : run'.batch[i] \notin ScoredIds(scores) ]_vars

\* a second run scored a lead created after the first run, on top of the
\* records of the first run
C2_Witness ==
    /\ last_op = "score"
    /\ runs = 2
    /\ run.status = "ok"
    /\ Len(scores) > Len(run.batch)
    /\ response.kind = "create"
    /\ response.code = 201
    /\ \E i \in 1..Len(run.batch) : run.batch[i] = response.rfq_id

\* C3 (as stated): when persisting a batch fails at some lead, the leads of
\* the batch before the failing one have Score Records, and the failing lead
\* and the later ones have none.
C3_PartialKept_Original ==
    (last_op = "score" /\ run.status = "storage_error") =>
        /\ \A i \in 1..(run.failed_at - 1) : run.batch[i] \in ScoredIds(scores)
        /\ \A i \in run.failed_at..Len(run.batch) : run.batch[i] \notin ScoredIds(scores)

\* C3 (amended): when persisting a batch fails at some lead, no lead of the
\* batch has a Score Record, and the whole batch is the candidate set of the
\* next run.
C3_FailedRunKeepsNothing ==
    (last_op = "score" /\ run.status = "storage_error") =>
        /\ \A i \in 1..Len(run.batch) : run.batch[i] \notin ScoredIds(scores)
        /\ \A i \in 1..Len(run.batch) :
              \E j \in 1..Len(rfqs) :
                  /\ rfqs[j].rfq_id = run.batch[i]
                  /\ rfqs[j].status = "published"
        /\ RunIds(Candidates(rfqs, scores)) = run.batch

\* an insert after the first one failed, with leads after it in the batch
C3_Witness ==
    /\ last_op = "score"
    /\ run.status = "storage_error"
    /\ run.failed_at >= 2
    /\ Len(run.batch) > run.failed_at

\* C4: the Score Records a run writes are at most 100, and each is for a lead
\* that was published and had no Score Record when the run started.
C4_PublishedUnscoredOnly ==
    [][ runs' = runs + 1 =>
          /\ Len(scores') - Len(scores) <= 100
          /\ \A k \in (Len(scores) + 1)..Len(scores') :
                /\ scores'[k].rfq_id \notin ScoredIds(scores)
                /\ \E j \in 1..Len(rfqs) :
                      /\ rfqs[j].rfq_id = scores'[k].rfq_id
                      /\ rfqs[j].status = "published" ]_vars

\* a run wrote 100 records while a published lead without a record remains
C4_Witness ==
    /\ last_op = "score"
    /\ run.status = "ok"
    /\ Len(scores) = 100
    /\ \E j \in 1..Len(rfqs) :
          /\ rfqs[j].status = "published"
          /\ rfqs[j].rfq_id \notin ScoredIds(scores)
    /\ \E j \in 1..Len(rfqs) :
          /\ rfqs[j].status # "published"
          /\ rfqs[j].rfq_id \notin ScoredIds(scores)

\* C5: every Score Record has 0 <= lead_score <= 100 and lead_score is the
\* floor of 100 * conversion_probability, for every probability from exactly 0
\* to exactly 1.
C5_ScoreIsFloor ==
    \A i \in 1..Len(scores) :
        /\ scores[i].conversion_probability \in 0..ProbScale
        /\ scores[i].lead_score \in 0..100
        /\ scores[i].lead_score * ProbScale <= 100 * scores[i].conversion_probability
        /\ 100 * scores[i].conversion_probability < (scores[i].lead_score + 1) * ProbScale

\* the records of a run whose probabilities are all exactly 1: score 100
C5_Witness ==
    /\ Len(scores) > 0
    /\ \A i \in 1..Len(scores) :
          /\ scores[i].conversion_probability = ProbScale
          /\ scores[i].lead_score = 100

\* C6: GET /rfqs/{id}/score answers "RFQ not found" when no lead has the id,
\* "RFQ not yet scored" when the lead has no Score Record, and a success
\* carrying the Score Record when the lead has one, a score of zero included.
C6_ThreeOutcomes ==
    (last_op = "get_score") =>
        LET id == response.rfq_id
            exists == \E j \in 1..Len(rfqs) : rfqs[j].rfq_id = id
            scored == id \in ScoredIds(scores)
        IN  /\ ~exists => (response.code = 404 /\ response.error = "RFQ not found")
            /\ (exists /\ ~scored) =>
                  (response.code = 404 /\ response.error = "RFQ not yet scored")
            /\ (exists /\ scored) =>
                  /\ response.code = 200
                  /\ \E k \in 1..Len(scores) :
                        /\ scores[k].rfq_id = id
                        /\ response.rfq.lead_score = Some(scores[k].lead_score)
                        /\ response.rfq.conversion_probability =
                               Some(scores[k].conversion_probability)

\* C7: GET /rfqs/scored returns only leads that have a Score Record and
\* satisfy every supplied filter (status, lead_score >= min_score, buyer rank
\* = rfqscore), each once, all of them up to the result cap, ordered by
\* descending lead_score and then descending creation time.
C7_ListingFilters ==
    (last_op = "get_scored" /\ response.code = 200) =>
        LET req == response.request
            rows == response.rfqs
            ScoreOf(id) ==
                scores[CHOOSE k \in 1..Len(scores) : scores[k].rfq_id = id].lead_score
            Matches(r) ==
                /\ r.rfq_id \in ScoredIds(scores)
                /\ r.status = req.status
                /\ ~IsNull(req.min_score) => ScoreOf(r.rfq_id) >= Val(req.min_score)
                /\ ~IsNull(req.rfqscore) =>
                      (HasBuyer(r) /\ Buyer(r).brank = Some(Val(req.rfqscore)))
            expected == {rfqs[j].rfq_id : j \in {n \in 1..Len(rfqs) : Matches(rfqs[n])}}
        IN  /\ \A i \in 1..Len(rows) : rows[i].rfq_id \in expected
            /\ \A i, j \in 1..Len(rows) : rows[i].rfq_id = rows[j].rfq_id => i = j
            /\ req.limit_param.kind = "all" => Len(rows) = Cardinality(expected)
            /\ req.limit_param.kind = "int" =>
                  Len(rows) = Min(Cardinality(expected), Min(req.limit_param.n, 100))
            /\ \A i \in 1..(Len(rows) - 1) :
                  \/ rows[i].lead_score > rows[i + 1].lead_score
                  \/ /\ rows[i].lead_score = rows[i + 1].lead_score
                     /\ rows[i].created_at > rows[i + 1].created_at

\* C8: GET /rfqs/scored returns at most 50 rows when limit is omitted and at
\* most min(limit, 100) rows for a numeric limit; only limit=all is unbounded.
C8_LimitDefault ==
    (last_op = "get_scored" /\ response.code = 200) =>
        /\ response.request.limit_param.kind = "none" => Len(response.rfqs) <= 50
        /\ response.request.limit_param.kind = "int" =>
              Len(response.rfqs) <= Min(response.request.limit_param.n, 100)

\* C9: after a Scorer run in which no insert failed, every lead of the batch
\* whose buyer has a rank has a Score Record, also when another lead of the
\* batch has no buyer rank.
C9_BadRowDoesNotBlock ==
    (last_op = "score" /\ run.status # "storage_error") =>
        \A i \in 1..Len(run.batch) :
            \A j \in 1..Len(rfqs) :
                ( /\ rfqs[j].rfq_id = run.batch[i]
                  /\ HasBuyer(rfqs[j])
                  /\ ~IsNull(Buyer(rfqs[j]).brank) )
                => run.batch[i] \in ScoredIds(scores)

\* C10: a create request that read no latest lead is assigned RFQ001; one that
\* read the latest id RFQ<digits> is assigned RFQ followed by the decimal
\* digits of (that number + 1), padded with zeros to three digits and no
\* further; the lead is stored under the id the response reports.
C10_NextRfqId ==
    /\ \A req \in pending :
          LET suffix == SubSeq(req.new_rfq_id, 4, Len(req.new_rfq_id))
          IN  /\ IsNull(req.last_rfq) =>
                    req.new_rfq_id = <<"R", "F", "Q", "0", "0", "1">>
              /\ ( /\ ~IsNull(req.last_rfq)
                   /\ StartsWith(Val(req.last_rfq), <<"R", "F", "Q">>) ) =>
                    /\ SubSeq(req.new_rfq_id, 1, 3) = <<"R", "F", "Q">>
                    /\ IntParses(suffix)
                    /\ ParseInt(suffix) =
                         ParseInt(SubSeq(Val(req.last_rfq), 4, Len(Val(req.last_rfq)))) + 1
                    /\ Len(suffix) >= 3
                    /\ Len(suffix) > 3 => suffix[1] # "0"
    /\ (last_op = "create_finish" /\ response.code = 201) =>
          \E j \in 1..Len(rfqs) : rfqs[j].rfq_id = response.rfq_id

\* the latest lead is RFQ047 and the request was assigned RFQ048
C10_Witness ==
    \E req \in pending :
        /\ req.last_rfq = Some(<<"R", "F", "Q", "0", "4", "7">>)
        /\ req.new_rfq_id = <<"R", "F", "Q", "0", "4", "8">>

\* C11: every Score Record carries the version tag of the artifact that
\* computed it, and two Score Records with the same model_version were computed
\* by the same artifact.
C11_VersionIdentifiesArtifact ==
    \A i, j \in 1..Len(scores) :
        /\ scores[i].model_version = produced_by[i].version
        /\ scores[i].model_version = scores[j].model_version =>
              produced_by[i] = produced_by[j]

\* C15: a Scorer run without the model artifact file selects nothing and
\* changes neither table nor the artifact; a Trainer run without the training
\* data file writes no artifact and leaves the Score Store unchanged.
C15_MissingFileAborts ==
    [][ /\ (runs' = runs + 1 /\ ArtifactFile \notin files) =>
              /\ run'.status = "config_error"
              /\ run'.batch = <<>>
              /\ scores' = scores
              /\ rfqs' = rfqs
              /\ model_package' = model_package
              /\ files' = files
        /\ (trains' = trains + 1 /\ DataFile \notin files) =>
              /\ model_package' = model_package
              /\ files' = files
              /\ scores' = scores ]_vars

\* neither file is present, the Trainer has run, and a Scorer run ended at the
\* load of the artifact although published unscored leads were waiting
C15_Witness ==
    /\ files = {}
    /\ trains > 0
    /\ last_op = "score"
    /\ run.status = "config_error"
    /\ \E j \in 1..Len(rfqs) :
          rfqs[j].status = "published" /\ rfqs[j].rfq_id \notin ScoredIds(scores)

\* C12: a Scorer run with an artifact whose declared feature list is not
\* <<buyer_brank, category_match, budget_specified>> does not succeed, and no
\* Score Record is ever computed by such an artifact.
C12_SchemaMismatchAborts ==
    /\ (last_op = "score" /\ runs > 0
          /\ model_package.features # <<"buyer_brank", "category_match", "budget_specified">>)
         => run.status # "ok"
    /\ \A i \in 1..Len(scores) :
          produced_by[i].features = <<"buyer_brank", "category_match", "budget_specified">>

\* C13: GET /rfqs/stats reports, over the published leads that have a Score
\* Record, their number as total_scored and the numbers with lead_score >= 70,
\* with 40 <= lead_score < 70 and with lead_score < 40 as high, medium and low,
\* so that high + medium + low = total_scored; total_rfqs counts every lead.
C13_StatsBuckets ==
    (last_op = "get_stats" /\ response.code = 200) =>
        LET st == response.stats
            ScoreOf(id) ==
                scores[CHOOSE k \in 1..Len(scores) : scores[k].rfq_id = id].lead_score
            scored == {j \in 1..Len(rfqs) : /\ rfqs[j].status = "published"
                                            /\ rfqs[j].rfq_id \in ScoredIds(scores)}
            high == {j \in scored : ScoreOf(rfqs[j].rfq_id) >= 70}
            medium == {j \in scored : /\ ScoreOf(rfqs[j].rfq_id) >= 40
                                      /\ ScoreOf(rfqs[j].rfq_id) < 70}
            low == {j \in scored : ScoreOf(rfqs[j].rfq_id) < 40}
        IN  /\ st.total_scored = Cardinality(scored)
            /\ st.total_rfqs = Len(rfqs)
            /\ st.high_priority = Some(Cardinality(high))
            /\ st.medium_priority = Some(Cardinality(medium))
            /\ st.low_priority = Some(Cardinality(low))
            /\ Val(st.high_priority) + Val(st.medium_priority) + Val(st.low_priority)
                  = st.total_scored

\* C14: category_match is 1.0 iff the lead's category equals the buyer's
\* primary category; otherwise 0.6 iff the first 5 characters of the primary
\* category (all of it when shorter) occur as a substring of the lead's
\* category; otherwise 0.2.  Values are in tenths.
C14_CategoryMatchRule ==
    (response.kind = "category_match") =>
        LET c == response.category
            b == response.primary_category
            prefix == SubSeq(b, 1, IF Len(b) < 5 THEN Len(b) ELSE 5)
            occurs == \E i \in 0..(Len(c) - Len(prefix)) :
                          SubSeq(c, i + 1, i + Len(prefix)) = prefix
        IN  response.value = IF c = b THEN 10 ELSE IF occurs THEN 6 ELSE 2

\* C16: a Scorer run is all-or-nothing: either it ends "ok" and the table of
\* Score Records has grown by exactly one record per lead of the batch, in
\* batch order, or it ends otherwise and the table is what it was.
C16_AllOrNothing ==
    [][(runs' = runs + 1) =>
          \/ /\ run'.status # "ok"
             /\ scores' = scores
          \/ /\ run'.status = "ok"
             /\ Len(scores') = Len(scores) + Len(run'.batch)
             /\ SubSeq(scores', 1, Len(scores)) = scores
             /\ \A i \in 1..Len(run'.batch) :
                   scores'[Len(scores) + i].rfq_id = run'.batch[i]]_vars

\* the last insert of a batch failed after every other row was inserted, and
\* an earlier run of the same behaviour had committed its batch
C16_Witness ==
    /\ last_op = "score"
    /\ run.status = "storage_error"
    /\ Len(run.batch) >= 2
    /\ run.failed_at = Len(run.batch)
    /\ Len(scores) > 0
    /\ \A i \in 1..Len(run.batch) : run.batch[i] \notin ScoredIds(scores)

C17_EventuallyAllScored ==
    /\ <>[](\A i \in 1..Len(rfqs) :
               (rfqs[i].status = "published" /\ HasBuyer(rfqs[i])) =>
                   rfqs[i].rfq_id \in ScoredIds(scores))
    /\ [][(\A i \in 1..Len(rfqs) :
              rfqs[i].status = "published" => rfqs[i].rfq_id \in ScoredIds(scores))
          => scores' = scores]_vars

====
